---- MODULE Spec2Model ----
(***************************************************************************)
(* A model of superset/db_engine_specs/trino.py (class TrinoEngineSpec).   *)
(*                                                                         *)
(* Text is modelled as a sequence of one-character strings, so that        *)
(* upper(), split("/"), urllib.parse.quote and isoformat are computed      *)
(* character by character.  A Python dict is a function whose DOMAIN is    *)
(* the set of its keys.  Optional values carry an explicit tag.            *)
(***************************************************************************)
EXTENDS Integers, Sequences, FiniteSets, TLC

VARIABLES
    op,             \* the method the caller applies
    pc,             \* "call" until a first call of it has completed, "done" from then on
    target_type,    \* convert_dttm: argument target_type
    dttm,           \* convert_dttm: argument dttm
    time_grain,     \* key looked up in _time_grain_expressions
    sql,            \* value returned by convert_dttm / the catalog lookup
    uri_database,   \* adjust_database_uri: uri.database (mutated in place)
    selected_schema,\* adjust_database_uri: argument of the last call
    database_before,\* adjust_database_uri: uri.database when the last call started
    connect_args,   \* update_impersonation_config: the dict mutated in place
    imp_call,       \* update_impersonation_config: arguments, outcome and pre-state of the last call
    database,       \* the Database record: server_cert, encrypted_extra
    config,         \* current_app.config["ALLOWED_EXTRA_AUTHENTICATIONS"]
    base_extra,     \* what BaseEngineSpec.get_extra_params(database) returned
    extra,          \* the dict returned by TrinoEngineSpec.get_extra_params
    params,         \* the dict handed to update_encrypted_extra_params (mutated in place)
    params_before,  \* params when update_encrypted_extra_params was entered
    outcome,        \* how the last builder call ended: "returned" or the exception raised
    phase           \* position of the connection attempt in the builder sequence

vars == << op, pc, target_type, dttm, time_grain, sql, uri_database, selected_schema,
           database_before, connect_args, imp_call, database, config, base_extra,
           extra, params, params_before, outcome, phase >>

ctlVars  == << op, pc >>
sqlVars  == << target_type, dttm, time_grain, sql >>
uriVars  == << uri_database, selected_schema, database_before >>
impVars  == << connect_args, imp_call >>
authVars == << database, config, base_extra, extra, params, params_before, outcome, phase >>

----------------------------------------------------------------------------
(* Bounds of the model. *)

MaxSchemaLen == 2      \* longest selected_schema tried
MaxDatabaseLen == 3    \* longest initial uri.database tried
MaxUsers == 2          \* number of distinct non-empty usernames
MaxParamValue == 1     \* auth_params values x = 1 .. MaxParamValue
MaxDay == 2            \* days of the month 1 .. MaxDay (and the last one, 31)

----------------------------------------------------------------------------
(* Python values. *)

\* Optional[str] / Optional[text]: None, or a text value.
None == [is_none |-> TRUE, value |-> << >>]
Some(s) == [is_none |-> FALSE, value |-> s]

\* Python truthiness of an Optional[str]: None and "" are falsy.
Truthy(o) == ~o.is_none /\ Len(o.value) > 0

\* dict helpers
EmptyDict == [k \in {} |-> TRUE]
Has(d, k) == k \in DOMAIN d
Put(d, k, v) == [x \in (DOMAIN d) \cup {k} |-> IF x = k THEN v ELSE d[x]]
SetDefault(d, k, v) == IF Has(d, k) THEN d ELSE Put(d, k, v)

\* s1 + s2 + ... for a sequence of texts
RECURSIVE Concat(_)
Concat(parts) ==
    IF parts = << >> THEN << >> ELSE Head(parts) \o Concat(Tail(parts))

\* number of (possibly overlapping) occurrences of text `pat` in text `s`
CountSub(s, pat) ==
    Cardinality({i \in 1..Len(s) :
        /\ i + Len(pat) - 1 <= Len(s)
        /\ SubSeq(s, i, i + Len(pat) - 1) = pat})

\* all texts over `alphabet` of length at most n
TextsUpTo(alphabet, n) == UNION {[1..k -> alphabet] : k \in 0..n}

----------------------------------------------------------------------------
(* str.upper() *)

LowerChars == << "a","b","c","d","e","f","g","h","i","j","k","l","m",
                 "n","o","p","q","r","s","t","u","v","w","x","y","z" >>
UpperChars == << "A","B","C","D","E","F","G","H","I","J","K","L","M",
                 "N","O","P","Q","R","S","T","U","V","W","X","Y","Z" >>

UpperChar(c) ==
    IF \E i \in 1..Len(LowerChars) : LowerChars[i] = c
    THEN UpperChars[CHOOSE i \in 1..Len(LowerChars) : LowerChars[i] = c]
    ELSE c

LowerChar(c) ==
    IF \E i \in 1..Len(UpperChars) : UpperChars[i] = c
    THEN LowerChars[CHOOSE i \in 1..Len(UpperChars) : UpperChars[i] = c]
    ELSE c

upper(s) == [i \in 1..Len(s) |-> UpperChar(s[i])]
lower(s) == [i \in 1..Len(s) |-> LowerChar(s[i])]

----------------------------------------------------------------------------
(* _time_grain_expressions: the time-grain catalog. *)

\* dictionary keys of the catalog: Python None or a str
GrainNone == [is_none |-> TRUE, value |-> ""]
Grain(s) == [is_none |-> FALSE, value |-> s]

ColPlaceholder == << "{","c","o","l","}" >>
TruncPrefix == << "d","a","t","e","_","t","r","u","n","c","(","'" >>
TruncMiddle == << "'",","," ","C","A","S","T","(" >>
TruncSuffix == << " ","A","S"," ","T","I","M","E","S","T","A","M","P",")",")" >>
UnitSecond == << "s","e","c","o","n","d" >>
UnitMinute == << "m","i","n","u","t","e" >>
UnitHour == << "h","o","u","r" >>
UnitDay == << "d","a","y" >>
UnitWeek == << "w","e","e","k" >>
UnitMonth == << "m","o","n","t","h" >>
UnitQuarter == << "q","u","a","r","t","e","r" >>
UnitYear == << "y","e","a","r" >>

\* "date_trunc('<unit>', CAST({col} AS TIMESTAMP))"
DateTrunc(unit) ==
    Concat(<< TruncPrefix, unit, TruncMiddle, ColPlaceholder, TruncSuffix >>)

\* a catalog with a slip: the week entry truncates a fixed column
_time_grain_expressions_week_without_col ==
    [g \in {GrainNone, Grain("PT1S"), Grain("PT1M"), Grain("PT1H"), Grain("P1D"),
            Grain("P1W"), Grain("P1M"), Grain("P3M"), Grain("P1Y")} |->
        CASE g = GrainNone    -> ColPlaceholder
          [] g = Grain("PT1S") -> DateTrunc(UnitSecond)
          [] g = Grain("PT1M") -> DateTrunc(UnitMinute)
          [] g = Grain("PT1H") -> DateTrunc(UnitHour)
          [] g = Grain("P1D")  -> DateTrunc(UnitDay)
          [] g = Grain("P1W")  -> Concat(<< TruncPrefix, UnitWeek, TruncMiddle, TruncSuffix >>)
          [] g = Grain("P1M")  -> DateTrunc(UnitMonth)
          [] g = Grain("P3M")  -> DateTrunc(UnitQuarter)
          [] g = Grain("P1Y")  -> DateTrunc(UnitYear)]

_time_grain_expressions ==
    [g \in {GrainNone, Grain("PT1S"), Grain("PT1M"), Grain("PT1H"), Grain("P1D"),
            Grain("P1W"), Grain("P1M"), Grain("P3M"), Grain("P1Y")} |->
        CASE g = GrainNone    -> ColPlaceholder
          [] g = Grain("PT1S") -> DateTrunc(UnitSecond)
          [] g = Grain("PT1M") -> DateTrunc(UnitMinute)
          [] g = Grain("PT1H") -> DateTrunc(UnitHour)
          [] g = Grain("P1D")  -> DateTrunc(UnitDay)
          [] g = Grain("P1W")  -> DateTrunc(UnitWeek)
          [] g = Grain("P1M")  -> DateTrunc(UnitMonth)
          [] g = Grain("P3M")  -> DateTrunc(UnitQuarter)
          [] g = Grain("P1Y")  -> DateTrunc(UnitYear)]

\* expression_for(grain): the catalog read with dict.get, absence as None
expression_for(grain) ==
    IF grain \in DOMAIN _time_grain_expressions
    THEN Some(_time_grain_expressions[grain])
    ELSE None

\* grains asked for: the catalog's keys and some that are not in it
\* (a lower-case code, the commented-out week variants, an unsupported period)
GrainInputs ==
    (DOMAIN _time_grain_expressions) \cup
    {Grain(""), Grain("pt1s"), Grain("PT5M"), Grain("P1W/1970-01-03T00:00:00Z"),
     Grain("1969-12-28T00:00:00Z/P1W"), Grain("None")}

----------------------------------------------------------------------------
(* convert_dttm *)

DATE == << "D","A","T","E" >>
TIMESTAMP == << "T","I","M","E","S","T","A","M","P" >>
TIMESTAMP_WITH_TIME_ZONE == << "T","I","M","E","S","T","A","M","P"," ","W","I","T","H",
                               " ","T","I","M","E"," ","Z","O","N","E" >>
DatePrefix == << "D","A","T","E"," ","'" >>
TimestampPrefix == << "T","I","M","E","S","T","A","M","P"," ","'" >>

DigitChars == << "0","1","2","3","4","5","6","7","8","9" >>

\* "%0<w>d" % n
RECURSIVE Pad(_, _)
Pad(n, w) ==
    IF w = 0 THEN << >> ELSE Pad(n \div 10, w - 1) \o << DigitChars[(n % 10) + 1] >>

\* date.isoformat(): YYYY-MM-DD
date_isoformat(d) ==
    Concat(<< Pad(d.year, 4), << "-" >>, Pad(d.month, 2), << "-" >>, Pad(d.day, 2) >>)

\* the UTC offset isoformat appends to an aware datetime: +HH:MM or -HH:MM
offset_isoformat(tz) ==
    IF ~tz.aware THEN << >>
    ELSE LET m == IF tz.minutes < 0 THEN -tz.minutes ELSE tz.minutes
         IN Concat(<< << IF tz.minutes < 0 THEN "-" ELSE "+" >>,
                      Pad(m \div 60, 2), << ":" >>, Pad(m % 60, 2) >>)

\* datetime.isoformat(timespec="microseconds", sep=<sep>)
datetime_isoformat(d, sep) ==
    Concat(<< date_isoformat(d), << sep >>,
              Pad(d.hour, 2), << ":" >>, Pad(d.minute, 2), << ":" >>, Pad(d.second, 2),
              << "." >>, Pad(d.microsecond, 6), offset_isoformat(d.tzinfo) >>)

\* convert_dttm compared against the target type as given, without upper()
convert_dttm_without_upper(tt_arg, d) ==
    IF tt_arg = DATE
    THEN Some(Concat(<< DatePrefix, date_isoformat(d), << "'" >> >>))
    ELSE IF tt_arg \in {TIMESTAMP, TIMESTAMP_WITH_TIME_ZONE}
    THEN Some(Concat(<< TimestampPrefix, datetime_isoformat(d, " "), << "'" >> >>))
    ELSE None

convert_dttm(tt_arg, d) ==
    LET tt == upper(tt_arg)
    IN  IF tt = DATE
        THEN Some(Concat(<< DatePrefix, date_isoformat(d), << "'" >> >>))
        ELSE IF tt \in {TIMESTAMP, TIMESTAMP_WITH_TIME_ZONE}
        THEN Some(Concat(<< TimestampPrefix, datetime_isoformat(d, " "), << "'" >> >>))
        ELSE None

\* target types asked for: the three handled ones in several spellings, and others
TargetTypeInputs ==
    {DATE, lower(DATE), TIMESTAMP, lower(TIMESTAMP),
     << "T","i","m","e","s","t","a","m","p" >>,
     TIMESTAMP_WITH_TIME_ZONE, lower(TIMESTAMP_WITH_TIME_ZONE),
     << "D","A","T","E","T","I","M","E" >>, << "T","I","M","E" >>,
     << "T","I","M","E","S","T","A","M","P","(","3",")" >>, << >>}

NaiveTz == [aware |-> FALSE, minutes |-> 0]
TzInputs == {NaiveTz, [aware |-> TRUE, minutes |-> 0],
             [aware |-> TRUE, minutes |-> 330], [aware |-> TRUE, minutes |-> -480]}

DttmInputs ==
    [year : {1, 987, 2024}, month : {1, 12}, day : (1..MaxDay) \cup {31},
     hour : {0, 23}, minute : {0, 59}, second : {0, 59},
     microsecond : {0, 1, 120000, 999999}, tzinfo : TzInputs]

DefaultDttm ==
    [year |-> 1, month |-> 1, day |-> 1, hour |-> 0, minute |-> 0, second |-> 0,
     microsecond |-> 0, tzinfo |-> NaiveTz]

----------------------------------------------------------------------------
(* adjust_database_uri *)

\* s.split(c)[0]: the text before the first c, all of s when it holds no c
SplitFirst(s, c) ==
    IF \E i \in 1..Len(s) : s[i] = c
    THEN SubSeq(s, 1, (CHOOSE i \in 1..Len(s) : s[i] = c /\ \A j \in 1..(i - 1) : s[j] # c) - 1)
    ELSE s

\* characters urllib.parse.quote never encodes: letters, digits and "_.-~"
AlwaysSafe ==
    {LowerChars[i] : i \in 1..Len(LowerChars)} \cup {UpperChars[i] : i \in 1..Len(UpperChars)}
        \cup {DigitChars[i] : i \in 1..Len(DigitChars)} \cup {"_", ".", "-", "~"}

\* %XX of the UTF-8 bytes of a character that is not always safe
PercentEncoded(c) ==
    CASE c = "/" -> << "%","2","F" >>
      [] c = "%" -> << "%","2","5" >>
      [] c = " " -> << "%","2","0" >>
      [] c = "?" -> << "%","3","F" >>
      [] c = "#" -> << "%","2","3" >>
      [] c = "+" -> << "%","2","B" >>

\* urllib.parse.quote(s, safe=safe)
RECURSIVE quote(_, _)
quote(s, safe) ==
    IF s = << >> THEN << >>
    ELSE (IF Head(s) \in AlwaysSafe \cup safe THEN << Head(s) >> ELSE PercentEncoded(Head(s)))
         \o quote(Tail(s), safe)

\* adjust_database_uri with quote's default safe="/" instead of safe=""
adjust_database_uri_default_safe(uri_db, schema) ==
    IF Truthy(schema) /\ Truthy(uri_db)
    THEN Some(SplitFirst(uri_db.value, "/") \o << "/" >> \o quote(schema.value, {"/"}))
    ELSE uri_db

\* the value of uri.database after adjust_database_uri(uri, selected_schema)
adjust_database_uri(uri_db, schema) ==
    IF Truthy(schema) /\ Truthy(uri_db)
    THEN Some(SplitFirst(uri_db.value, "/") \o << "/" >> \o quote(schema.value, {}))
    ELSE uri_db

SchemaAlphabet == {"a", "/", "%", " "}
SchemaInputs == {None} \cup {Some(t) : t \in TextsUpTo(SchemaAlphabet, MaxSchemaLen)}

DatabaseAlphabet == {"c", "/"}
DatabaseInputs == {None} \cup {Some(t) : t \in TextsUpTo(DatabaseAlphabet, MaxDatabaseLen)}

----------------------------------------------------------------------------
(* update_impersonation_config *)

WordChars == AlwaysSafe \ {".", "-", "~"}

\* length of the longest prefix of s made of characters of `chars`
RECURSIVE PrefixLen(_, _)
PrefixLen(s, chars) ==
    IF s = << >> \/ Head(s) \notin chars THEN 0 ELSE 1 + PrefixLen(Tail(s), chars)

\* make_url(uri): the drivername [\w+]+ that must precede "://"; None when the
\* text does not start that way (make_url raises ArgumentError)
make_url(uri) ==
    LET n == PrefixLen(uri, WordChars \cup {"+"})
    IN  IF n >= 1 /\ Len(uri) >= n + 3 /\ SubSeq(uri, n + 1, n + 3) = << ":", "/", "/" >>
        THEN Some(SubSeq(uri, 1, n))
        ELSE None

\* URL.get_backend_name(): the drivername up to its first "+"
get_backend_name(drivername) == SplitFirst(drivername, "+")

TRINO == << "t","r","i","n","o" >>

\* update_impersonation_config without the test of the backend name
update_impersonation_config_any_backend(args, uri, username) ==
    LET url == make_url(uri)
    IN  IF url.is_none
        THEN [raised |-> TRUE, connect_args |-> args]
        ELSE IF ~username.is_none
        THEN [raised |-> FALSE, connect_args |-> Put(args, "user", username.value)]
        ELSE [raised |-> FALSE, connect_args |-> args]

\* connect_args after update_impersonation_config(connect_args, uri, username),
\* and whether make_url raised
update_impersonation_config(args, uri, username) ==
    LET url == make_url(uri)
    IN  IF url.is_none
        THEN [raised |-> TRUE, connect_args |-> args]
        ELSE IF get_backend_name(url.value) = TRINO /\ ~username.is_none
        THEN [raised |-> FALSE, connect_args |-> Put(args, "user", username.value)]
        ELSE [raised |-> FALSE, connect_args |-> args]

UriInputs ==
    {<< "t","r","i","n","o",":","/","/","h","/","c" >>,
     << "t","r","i","n","o","+","r","e","s","t",":","/","/","h","/","c" >>,
     << "p","r","e","s","t","o",":","/","/","h","/","c" >>,
     << "p","r","e","s","t","o","+","t","r","i","n","o",":","/","/","h","/","c" >>,
     << "t","r","i","n","o","n","a","t","i","v","e",":","/","/","h","/","c" >>,
     << "T","r","i","n","o",":","/","/","h","/","c" >>,
     << "t","r","i","n","o",":","/","h","/","c" >>,
     << "/","/","t","r","i","n","o","/","c" >>}

Users == {<< "u", DigitChars[i + 1] >> : i \in 1..MaxUsers}
UsernameInputs == {None, Some(<< >>)} \cup {Some(u) : u \in Users}

ConnectArgsInputs ==
    {EmptyDict, [k \in {"http_scheme"} |-> "https"]}
        \cup {[k \in {"user"} |-> u] : u \in Users \cup {<< >>}}

----------------------------------------------------------------------------
(* get_extra_params *)

\* Database.server_cert: None, "", a certificate create_ssl_cert_file accepts,
\* or one it rejects with CertificateException
ServerCerts == {"None", "empty", "valid", "invalid"}

CertTruthy(cert) == cert \in {"valid", "invalid"}

\* utils.create_ssl_cert_file(cert): the path of the file written
create_ssl_cert_file(cert) == "/tmp/cert.crt"

\* get_extra_params forcing https whether or not a certificate is set
get_extra_params_always_https(db, base) ==
    LET extra0 == SetDefault(base, "engine_params", EmptyDict)
        engine_params == SetDefault(extra0["engine_params"], "connect_args", EmptyDict)
        args == Put(engine_params["connect_args"], "http_scheme", "https")
    IN  [outcome |-> "returned",
         extra |-> Put(extra0, "engine_params", Put(engine_params, "connect_args", args))]

\* TrinoEngineSpec.get_extra_params(database), `base` being what
\* BaseEngineSpec.get_extra_params(database) returned: how the call ends and
\* the dict it returns (none is returned when it raises)
get_extra_params(db, base) ==
    LET extra0 == SetDefault(base, "engine_params", EmptyDict)
        engine_params == SetDefault(extra0["engine_params"], "connect_args", EmptyDict)
        args == engine_params["connect_args"]
    IN  IF ~CertTruthy(db.server_cert)
        THEN [outcome |-> "returned", extra |-> Put(extra0, "engine_params", engine_params)]
        ELSE IF db.server_cert = "invalid"
        THEN [outcome |-> "CertificateException", extra |-> base]
        ELSE LET args2 == Put(Put(args, "http_scheme", "https"),
                              "verify", create_ssl_cert_file(db.server_cert))
             IN  [outcome |-> "returned",
                  extra |-> Put(extra0, "engine_params", Put(engine_params, "connect_args", args2))]

\* connect_args dicts a deployment's `extra` may already hold
BaseConnectArgs ==
    {EmptyDict, [k \in {"source"} |-> "superset"], [k \in {"http_scheme"} |-> "http"],
     [k \in {"http_scheme"} |-> "https"]}

\* what BaseEngineSpec.get_extra_params may return
BaseExtraInputs ==
    {EmptyDict, [k \in {"metadata_params"} |-> EmptyDict], [k \in {"engine_params"} |-> EmptyDict]}
        \cup {[k \in {"engine_params"} |-> [j \in {"connect_args"} |-> a]] : a \in BaseConnectArgs}

----------------------------------------------------------------------------
(* update_encrypted_extra_params *)

\* auth_method / auth_params as found in the parsed encrypted_extra
AbsentMethod == [kind |-> "absent", name |-> ""]
NullMethod == [kind |-> "null", name |-> ""]
Method(n) == [kind |-> "str", name |-> n]

AbsentParams == [kind |-> "absent", items |-> {}]
NonMappingParams == [kind |-> "array", items |-> {}]
Params(items) == [kind |-> "object", items |-> items]

\* Database.encrypted_extra.  kind: "None" (Python None), "empty" (""),
\* "malformed" (text json.loads rejects), "scalar" (JSON null, number, string,
\* boolean), "array" (JSON array), "object" (JSON object with these members)
Blob(kind) == [kind |-> kind, auth_method |-> AbsentMethod, auth_params |-> AbsentParams]
ObjectBlob(m, p) == [kind |-> "object", auth_method |-> m, auth_params |-> p]

\* `not database.encrypted_extra`
BlobFalsy(blob) == blob.kind \in {"None", "empty"}

\* `not auth_method` for the value popped with default None
MethodFalsy(m) == m.kind \in {"absent", "null"} \/ (m.kind = "str" /\ m.name = "")

\* trino.auth classes imported for the built-in methods
BuiltinAuth(name) ==
    CASE name = "basic" -> "BasicAuthentication"
      [] name = "kerberos" -> "KerberosAuthentication"
      [] name = "jwt" -> "JWTAuthentication"

\* current_app.config["ALLOWED_EXTRA_AUTHENTICATIONS"].get("trino", {})
allowed_extra_auths(cfg) == IF Has(cfg, "trino") THEN cfg["trino"] ELSE EmptyDict

\* a constructor call that drops the keyword arguments
ConstructWithoutParams(cls, kwargs) == [strategy |-> cls, kwargs |-> {}]

\* trino_auth(**auth_params): the object constructed
Construct(cls, kwargs) == [strategy |-> cls, kwargs |-> kwargs]

\* the statements after `if not auth_method: return`, given the constructor
\* resolved (or the ValueError raised instead)
Dispatch(blob, prm, resolved, ctor_raises) ==
    LET p1 == SetDefault(prm, "connect_args", EmptyDict)
        p2 == Put(p1, "connect_args", Put(p1["connect_args"], "http_scheme", "https"))
        kwargs == IF blob.auth_params.kind = "absent" THEN {} ELSE blob.auth_params.items
    IN  IF resolved.is_none
        THEN [outcome |-> "ValueError", params |-> p2]
        ELSE IF blob.auth_params.kind = "array"
        THEN [outcome |-> "TypeError", params |-> p2]
        ELSE IF ctor_raises
        THEN [outcome |-> "ConstructorError", params |-> p2]
        ELSE [outcome |-> "returned",
              params |-> Put(p2, "connect_args",
                             Put(p2["connect_args"], "auth", Construct(resolved.value, kwargs)))]

\* resolution that takes any registered name, whatever the engine it is listed for
ResolveAnyEngine(name, cfg) ==
    IF name \in {"basic", "kerberos", "jwt"}
    THEN Some(BuiltinAuth(name))
    ELSE IF \E e \in DOMAIN cfg : Has(cfg[e], name)
    THEN Some(cfg[CHOOSE e \in DOMAIN cfg : Has(cfg[e], name)][name])
    ELSE None

\* resolution that falls back to basic authentication for an unknown name
ResolveDefaultBasic(name, cfg) ==
    IF name \in {"basic", "kerberos", "jwt"}
    THEN Some(BuiltinAuth(name))
    ELSE IF Has(allowed_extra_auths(cfg), name)
    THEN Some(allowed_extra_auths(cfg)[name])
    ELSE Some(BuiltinAuth("basic"))

\* the if / elif chain on auth_method: the constructor bound to trino_auth, or
\* None where the ValueError is raised
Resolve(name, cfg) ==
    IF name \in {"basic", "kerberos", "jwt"}
    THEN Some(BuiltinAuth(name))
    ELSE IF Has(allowed_extra_auths(cfg), name)
    THEN Some(allowed_extra_auths(cfg)[name])
    ELSE None

\* update_encrypted_extra_params setting http_scheme only once the strategy is built
update_encrypted_extra_params_late_https(db, prm, cfg, ctor_raises) ==
    LET blob == db.encrypted_extra
        r == Dispatch(blob, prm, Resolve(blob.auth_method.name, cfg), ctor_raises)
    IN  IF BlobFalsy(blob) THEN [outcome |-> "returned", params |-> prm]
        ELSE IF blob.kind = "malformed" THEN [outcome |-> "JSONDecodeError", params |-> prm]
        ELSE IF blob.kind = "scalar" THEN [outcome |-> "AttributeError", params |-> prm]
        ELSE IF blob.kind = "array" THEN [outcome |-> "TypeError", params |-> prm]
        ELSE IF MethodFalsy(blob.auth_method) THEN [outcome |-> "returned", params |-> prm]
        ELSE IF r.outcome = "returned" THEN r
        ELSE [outcome |-> r.outcome, params |-> prm]

\* update_encrypted_extra_params swallowing the parse error
update_encrypted_extra_params_swallow(db, prm, cfg, ctor_raises) ==
    LET blob == db.encrypted_extra
    IN  IF BlobFalsy(blob) THEN [outcome |-> "returned", params |-> prm]
        ELSE IF blob.kind = "malformed" THEN [outcome |-> "returned", params |-> prm]
        ELSE IF blob.kind = "scalar" THEN [outcome |-> "AttributeError", params |-> prm]
        ELSE IF blob.kind = "array" THEN [outcome |-> "TypeError", params |-> prm]
        ELSE IF MethodFalsy(blob.auth_method) THEN [outcome |-> "returned", params |-> prm]
        ELSE Dispatch(blob, prm, Resolve(blob.auth_method.name, cfg), ctor_raises)

\* update_encrypted_extra_params(database, params): how the call ends and what
\* params holds then.  ctor_raises: whether trino_auth(**auth_params) raises
update_encrypted_extra_params(db, prm, cfg, ctor_raises) ==
    LET blob == db.encrypted_extra
    IN  IF BlobFalsy(blob) THEN [outcome |-> "returned", params |-> prm]
        ELSE IF blob.kind = "malformed" THEN [outcome |-> "JSONDecodeError", params |-> prm]
        ELSE IF blob.kind = "scalar" THEN [outcome |-> "AttributeError", params |-> prm]
        ELSE IF blob.kind = "array" THEN [outcome |-> "TypeError", params |-> prm]
        ELSE IF MethodFalsy(blob.auth_method) THEN [outcome |-> "returned", params |-> prm]
        ELSE Dispatch(blob, prm, Resolve(blob.auth_method.name, cfg), ctor_raises)

MethodInputs ==
    {AbsentMethod, NullMethod} \cup
    {Method(n) : n \in {"", "basic", "kerberos", "jwt", "custom", "evil", "Basic"}}

ParamsValueInputs ==
    {AbsentParams, NonMappingParams, Params({})}
        \cup {Params({<< "x", v >>}) : v \in 1..MaxParamValue}

BlobInputs ==
    {Blob(k) : k \in {"None", "empty", "malformed", "scalar", "array"}}
        \cup {ObjectBlob(m, p) : m \in MethodInputs, p \in ParamsValueInputs}

DatabaseRecords == [server_cert : ServerCerts, encrypted_extra : BlobInputs]

\* ALLOWED_EXTRA_AUTHENTICATIONS: engine -> (method name -> constructor)
ConfigInputs ==
    {EmptyDict,
     [e \in {"trino"} |-> EmptyDict],
     [e \in {"trino"} |-> [n \in {"custom"} |-> "CustomAuth"]],
     [e \in {"presto"} |-> [n \in {"evil"} |-> "EvilAuth"]],
     [e \in {"trino", "presto"} |->
        IF e = "trino" THEN [n \in {"custom"} |-> "CustomAuth"]
        ELSE [n \in {"evil"} |-> "EvilAuth"]],
     [e \in {"trino"} |-> [n \in {"custom", "evil"} |->
        IF n = "custom" THEN "CustomAuth" ELSE "EvilAuth"]]}

\* params dicts a caller may hand over directly
ParamsInputs ==
    {EmptyDict, [k \in {"pool_size"} |-> 5]}
        \cup {[k \in {"connect_args"} |-> a] :
                a \in BaseConnectArgs \cup
                      {[j \in {"auth"} |-> Construct("PresetAuth", {})],
                       [j \in {"http_scheme", "verify"} |->
                            IF j = "verify" THEN "/tmp/cert.crt" ELSE "https"]}}

----------------------------------------------------------------------------
(* The state machines.  Each component is driven on its own: the framework   *)
(* calls them independently and none reads another's state.                 *)

DefaultImpCall == [uri |-> << >>, username |-> None, raised |-> FALSE, before |-> EmptyDict]
DefaultDatabase == [server_cert |-> "None", encrypted_extra |-> Blob("None")]

SqlIdle ==
    /\ target_type = << >>
    /\ dttm = DefaultDttm
    /\ time_grain = GrainNone
    /\ sql = None

UriIdle ==
    /\ uri_database = None
    /\ selected_schema = None
    /\ database_before = None

ImpIdle ==
    /\ connect_args = EmptyDict
    /\ imp_call = DefaultImpCall

AuthIdle ==
    /\ database = DefaultDatabase
    /\ config = EmptyDict
    /\ base_extra = EmptyDict
    /\ extra = EmptyDict
    /\ params = EmptyDict
    /\ params_before = EmptyDict
    /\ outcome = "none"
    /\ phase = "start"

(* --- convert_dttm and the time-grain catalog: pure, applied once to the arguments --- *)

InitSql ==
    /\ pc = "call"
    /\ sql = None
    /\ \/ /\ op = "convert_dttm"
          /\ target_type \in TargetTypeInputs
          /\ dttm \in DttmInputs
          /\ time_grain = GrainNone
       \/ /\ op = "expression_for"
          /\ time_grain \in GrainInputs
          /\ target_type = << >>
          /\ dttm = DefaultDttm
    /\ UriIdle /\ ImpIdle /\ AuthIdle

ConvertDttm ==
    /\ pc = "call" /\ op = "convert_dttm"
    /\ sql' = convert_dttm(target_type, dttm)
    /\ pc' = "done"
    /\ UNCHANGED << op, target_type, dttm, time_grain, uriVars, impVars, authVars >>

TimeGrainExpression ==
    /\ pc = "call" /\ op = "expression_for"
    /\ sql' = expression_for(time_grain)
    /\ pc' = "done"
    /\ UNCHANGED << op, target_type, dttm, time_grain, uriVars, impVars, authVars >>

NextSql == ConvertDttm \/ TimeGrainExpression

SpecSql == InitSql /\ [][NextSql]_vars

(* --- adjust_database_uri: the same URL object may be adjusted again and again --- *)

InitUri ==
    /\ op = "adjust_database_uri" /\ pc = "call"
    /\ uri_database \in DatabaseInputs
    /\ selected_schema = None
    /\ database_before = uri_database
    /\ SqlIdle /\ ImpIdle /\ AuthIdle

AdjustDatabaseUri ==
    \E schema \in SchemaInputs :
        /\ uri_database' = adjust_database_uri(uri_database, schema)
        /\ selected_schema' = schema
        /\ database_before' = uri_database
        /\ pc' = "done"
        /\ UNCHANGED << op, sqlVars, impVars, authVars >>

NextUri == AdjustDatabaseUri

SpecUri == InitUri /\ [][NextUri]_vars

(* --- update_impersonation_config: mutates the caller's connect_args --- *)

InitImp ==
    /\ op = "update_impersonation_config" /\ pc = "call"
    /\ connect_args \in ConnectArgsInputs
    /\ imp_call = DefaultImpCall
    /\ SqlIdle /\ UriIdle /\ AuthIdle

UpdateImpersonationConfig ==
    \E uri \in UriInputs, username \in UsernameInputs :
        LET r == update_impersonation_config(connect_args, uri, username)
        IN  /\ connect_args' = r.connect_args
            /\ imp_call' = [uri |-> uri, username |-> username, raised |-> r.raised,
                            before |-> connect_args]
            /\ pc' = "done"
            /\ UNCHANGED << op, sqlVars, uriVars, authVars >>

NextImp == UpdateImpersonationConfig

SpecImp == InitImp /\ [][NextImp]_vars

(* --- the connection-parameter builder: one connection attempt --- *)
(* phase: "start"; "extra" once get_extra_params has returned ("failed" when it  *)
(* raised); "built" once update_encrypted_extra_params has then run on the       *)
(* engine_params it returned; "direct" when update_encrypted_extra_params was    *)
(* called on a params dict of the caller's own.                                  *)

InitAuth ==
    /\ op = "builder" /\ pc = "call"
    /\ database \in DatabaseRecords
    /\ config \in ConfigInputs
    /\ params \in ParamsInputs
    /\ params_before = params
    /\ base_extra = EmptyDict
    /\ extra = EmptyDict
    /\ outcome = "none"
    /\ phase = "start"
    /\ SqlIdle /\ UriIdle /\ ImpIdle

\* the caller's extra.get("engine_params", {})
EngineParams(e) == IF Has(e, "engine_params") THEN e["engine_params"] ELSE EmptyDict

GetExtraParams ==
    /\ phase = "start"
    /\ \E base \in BaseExtraInputs :
        LET r == get_extra_params(database, base)
        IN  /\ base_extra' = base
            /\ outcome' = r.outcome
            /\ IF r.outcome = "returned"
               THEN /\ extra' = r.extra
                    /\ params' = EngineParams(r.extra)
                    /\ phase' = "extra"
               ELSE /\ UNCHANGED << extra, params >>
                    /\ phase' = "failed"
            /\ params_before' = params'
    /\ UNCHANGED << ctlVars, database, config, sqlVars, uriVars, impVars >>

UpdateEncryptedExtraParams ==
    /\ phase \in {"start", "extra"}
    /\ \E ctor_raises \in BOOLEAN :
        LET r == update_encrypted_extra_params(database, params, config, ctor_raises)
        IN  /\ params' = r.params
            /\ outcome' = r.outcome
            \* params is extra["engine_params"] itself: the mutation shows there too
            /\ extra' = IF phase = "extra" /\ Has(extra, "engine_params")
                        THEN Put(extra, "engine_params", r.params)
                        ELSE extra
    /\ params_before' = params
    /\ phase' = IF phase = "extra" THEN "built" ELSE "direct"
    /\ pc' = "done"
    /\ UNCHANGED << op, database, config, base_extra, sqlVars, uriVars, impVars >>

NextAuth == GetExtraParams \/ UpdateEncryptedExtraParams

SpecAuth == InitAuth /\ [][NextAuth]_vars

----------------------------------------------------------------------------
(* Properties: the time-grain catalog and convert_dttm (under SpecSql).       *)

EnumeratedGrains ==
    {GrainNone} \cup {Grain(g) : g \in {"PT1S", "PT1M", "PT1H", "P1D", "P1W", "P1M", "P3M", "P1Y"}}

\* C9: every enumerated grain (None, PT1S, PT1M, PT1H, P1D, P1W, P1M, P3M, P1Y)
\* maps to a non-empty template holding exactly one {col}; None maps to the
\* identity template "{col}"; any other grain has no mapping, and the lookup
\* answers None for it.
C9_TimeGrainCatalog ==
    (op = "expression_for" /\ pc = "done") =>
        /\ EnumeratedGrains \subseteq GrainInputs
        /\ IF time_grain \in EnumeratedGrains
           THEN /\ ~sql.is_none
                /\ Len(sql.value) > 0
                /\ CountSub(sql.value, ColPlaceholder) = 1
                /\ (time_grain = GrainNone => sql.value = << "{","c","o","l","}" >>)
           ELSE sql.is_none

\* an enumerated grain other than None has been looked up and gave a template
C9_Witness ==
    /\ op = "expression_for" /\ pc = "done"
    /\ time_grain = Grain("P1W")
    /\ ~sql.is_none /\ Len(sql.value) > Len(ColPlaceholder)

DigitValue(c) == (CHOOSE i \in 1..10 : DigitChars[i] = c) - 1
IsDigits(s) == \A i \in 1..Len(s) : \E j \in 1..10 : DigitChars[j] = s[i]

\* the number a text of digits denotes
RECURSIVE ParseNat(_)
ParseNat(s) ==
    IF s = << >> THEN 0
    ELSE 10 * ParseNat(SubSeq(s, 1, Len(s) - 1)) + DigitValue(s[Len(s)])

\* text[from..to] is a zero-padded number equal to n
Field(text, from, to, n) ==
    /\ Len(text) >= to
    /\ IsDigits(SubSeq(text, from, to))
    /\ ParseNat(SubSeq(text, from, to)) = n

\* text is exactly DATE 'YYYY-MM-DD' for the date portion of d: nothing of the
\* time of day or the zone fits in its 17 characters
IsDateLiteral(text, d) ==
    /\ Len(text) = 17
    /\ SubSeq(text, 1, 6) = << "D","A","T","E"," ","'" >>
    /\ Field(text, 7, 10, d.year) /\ text[11] = "-"
    /\ Field(text, 12, 13, d.month) /\ text[14] = "-"
    /\ Field(text, 15, 16, d.day)
    /\ text[17] = "'"

\* text is TIMESTAMP 'YYYY-MM-DD HH:MM:SS.ffffff' with d's own wall-clock fields
\* (no conversion to another zone), a space between date and time and six
\* digits of microseconds; an aware d has its UTC offset appended
IsTimestampLiteral(text, d) ==
    /\ Len(text) = (IF d.tzinfo.aware THEN 44 ELSE 38)
    /\ SubSeq(text, 1, 11) = << "T","I","M","E","S","T","A","M","P"," ","'" >>
    /\ Field(text, 12, 15, d.year) /\ text[16] = "-"
    /\ Field(text, 17, 18, d.month) /\ text[19] = "-"
    /\ Field(text, 20, 21, d.day)
    /\ text[22] = " "
    /\ Field(text, 23, 24, d.hour) /\ text[25] = ":"
    /\ Field(text, 26, 27, d.minute) /\ text[28] = ":"
    /\ Field(text, 29, 30, d.second) /\ text[31] = "."
    /\ Field(text, 32, 37, d.microsecond)
    /\ d.tzinfo.aware =>
          /\ text[38] = (IF d.tzinfo.minutes < 0 THEN "-" ELSE "+")
          /\ text[41] = ":"
          /\ IsDigits(SubSeq(text, 39, 40)) /\ IsDigits(SubSeq(text, 42, 43))
          /\ 60 * ParseNat(SubSeq(text, 39, 40)) + ParseNat(SubSeq(text, 42, 43))
                = (IF d.tzinfo.minutes < 0 THEN -d.tzinfo.minutes ELSE d.tzinfo.minutes)
    /\ text[Len(text)] = "'"

\* C8 as stated: a dispatch on the target type itself: "DATE" gives the DATE
\* literal, "TIMESTAMP" and "TIMESTAMP WITH TIME ZONE" the TIMESTAMP literal, and
\* every other target type gives None.
C8_AsStated ==
    (op = "convert_dttm" /\ pc = "done") =>
        /\ target_type = DATE => (~sql.is_none /\ IsDateLiteral(sql.value, dttm))
        /\ target_type \in {TIMESTAMP, TIMESTAMP_WITH_TIME_ZONE} =>
              (~sql.is_none /\ IsTimestampLiteral(sql.value, dttm))
        /\ target_type \notin {DATE, TIMESTAMP, TIMESTAMP_WITH_TIME_ZONE} => sql.is_none

\* C8 amended: convert_dttm never raises and dispatches on the upper-cased
\* target type: when target_type.upper() is "DATE" it returns the DATE literal of
\* the date portion only; when it is "TIMESTAMP" or "TIMESTAMP WITH TIME ZONE" it
\* returns the TIMESTAMP literal with a space separator, microsecond precision
\* and no timezone conversion; for every other target type it returns None.
C8_ConvertDttm ==
    (op = "convert_dttm" /\ pc = "done") =>
        /\ upper(target_type) = DATE => (~sql.is_none /\ IsDateLiteral(sql.value, dttm))
        /\ upper(target_type) \in {TIMESTAMP, TIMESTAMP_WITH_TIME_ZONE} =>
              (~sql.is_none /\ IsTimestampLiteral(sql.value, dttm))
        /\ upper(target_type) \notin {DATE, TIMESTAMP, TIMESTAMP_WITH_TIME_ZONE} => sql.is_none

\* a lower-case "timestamp" has been converted for an aware datetime with
\* microseconds, and produced a literal
C8_Witness ==
    /\ op = "convert_dttm" /\ pc = "done"
    /\ target_type = << "t","i","m","e","s","t","a","m","p" >>
    /\ dttm.microsecond = 120000 /\ dttm.tzinfo.aware /\ dttm.hour = 23
    /\ ~sql.is_none

----------------------------------------------------------------------------
(* Properties: adjust_database_uri (under SpecUri).                           *)

\* the character a %XX triple stands for
PercentDecoded(t) ==
    CASE t = << "%","2","F" >> -> "/"
      [] t = << "%","2","5" >> -> "%"
      [] t = << "%","2","0" >> -> " "
      [] OTHER -> "?"

\* urllib.parse.unquote
RECURSIVE Unquote(_)
Unquote(s) ==
    IF s = << >> THEN << >>
    ELSE IF Head(s) = "%" /\ Len(s) >= 3
    THEN << PercentDecoded(SubSeq(s, 1, 3)) >> \o Unquote(SubSeq(s, 4, Len(s)))
    ELSE << Head(s) >> \o Unquote(Tail(s))

\* the text of s before its first "/"
CatalogOf(s) == SubSeq(s, 1, PrefixLen(s, {s[i] : i \in 1..Len(s)} \ {"/"}))

\* C4: for non-empty uri.database and selected_schema the result is
\* <catalog>/<encoded-schema>, the catalog being the original database up to its
\* first "/", the encoded schema holding no "/" and decoding to the schema;
\* adjusting again with the same schema changes nothing; with an empty (or None)
\* schema or database the uri is unchanged.
C4_AdjustDatabaseUri ==
    pc = "done" =>
        IF Truthy(selected_schema) /\ Truthy(database_before)
        THEN LET cat == CatalogOf(database_before.value)
                 db == uri_database.value
                 enc == SubSeq(db, Len(cat) + 2, Len(db))
             IN  /\ ~uri_database.is_none
                 /\ Len(db) >= Len(cat) + 2
                 /\ SubSeq(db, 1, Len(cat)) = cat
                 /\ db[Len(cat) + 1] = "/"
                 /\ \A i \in 1..Len(enc) : enc[i] # "/"
                 /\ Unquote(enc) = selected_schema.value
                 /\ adjust_database_uri(uri_database, selected_schema) = uri_database
        ELSE uri_database = database_before

\* a database that already carried a schema has been given the schema "a/"
C4_Witness ==
    /\ pc = "done"
    /\ selected_schema = Some(<< "a", "/" >>)
    /\ database_before = Some(<< "c", "/", "c" >>)
    /\ uri_database = Some(<< "c", "/", "a", "%", "2", "F" >>)

----------------------------------------------------------------------------
(* Properties: update_impersonation_config (under SpecImp).                   *)

BackendIsTrino(uri) ==
    /\ ~make_url(uri).is_none
    /\ get_backend_name(make_url(uri).value) = << "t","r","i","n","o" >>

\* C3 as stated: connect_args["user"] = username is set only when the backend
\* name is "trino" and username is non-empty; in every other case (other
\* dialect, username None, username "") connect_args is left unchanged.
C3_AsStated ==
    pc = "done" =>
        IF BackendIsTrino(imp_call.uri) /\ Truthy(imp_call.username)
        THEN connect_args = Put(imp_call.before, "user", imp_call.username.value)
        ELSE connect_args = imp_call.before

\* C3 amended: connect_args["user"] = username is set exactly when the backend
\* name is "trino" and username is not None, the empty string included; in
\* every other case (other dialect, username None, a URI make_url rejects)
\* connect_args is left unchanged.
C3_UpdateImpersonationConfig ==
    pc = "done" =>
        IF BackendIsTrino(imp_call.uri) /\ ~imp_call.username.is_none
        THEN /\ ~imp_call.raised
             /\ connect_args = Put(imp_call.before, "user", imp_call.username.value)
        ELSE connect_args = imp_call.before

\* an empty username has been set on a trino URI
C3_Witness ==
    /\ pc = "done"
    /\ BackendIsTrino(imp_call.uri)
    /\ imp_call.username = Some(<< >>)
    /\ ~Has(imp_call.before, "user")
    /\ Has(connect_args, "user") /\ connect_args["user"] = << >>

----------------------------------------------------------------------------
(* Properties: the connection-parameter builder (under SpecAuth).             *)

\* update_encrypted_extra_params has run in this connection attempt
Updated == phase \in {"direct", "built"}

blob == database.encrypted_extra

ArgsOf(p) == IF Has(p, "connect_args") THEN p["connect_args"] ELSE EmptyDict

\* the call left an auth entry that was not there, or not that one, before
AuthAdded ==
    /\ Has(ArgsOf(params), "auth")
    /\ Has(ArgsOf(params_before), "auth") => ArgsOf(params)["auth"] # ArgsOf(params_before)["auth"]

\* the auth entry is as it was when the call started
AuthUntouched ==
    /\ Has(ArgsOf(params), "auth") <=> Has(ArgsOf(params_before), "auth")
    /\ ~AuthAdded

\* method names that may be instantiated: the built-ins and the keys of the
\* allow-list entry for engine "trino"
AllowedNames ==
    {"basic", "kerberos", "jwt"} \cup (IF "trino" \in DOMAIN config THEN DOMAIN config["trino"] ELSE {})

\* a JSON object with a non-empty string auth_method
HasMethod == blob.kind = "object" /\ blob.auth_method.kind = "str" /\ blob.auth_method.name # ""

\* a JSON object whose auth_method is missing, null or empty
NoMethod == blob.kind = "object" /\ ~HasMethod

\* p with connect_args created if missing and http_scheme forced to "https"
WithHttps(p) ==
    [k \in (DOMAIN p) \cup {"connect_args"} |->
        IF k = "connect_args"
        THEN [j \in (DOMAIN ArgsOf(p)) \cup {"http_scheme"} |->
                IF j = "http_scheme" THEN "https" ELSE ArgsOf(p)[j]]
        ELSE p[k]]

Failed == outcome \notin {"none", "returned"}

\* C1: a strategy is stored under connect_args["auth"] only if auth_method is
\* "basic", "kerberos", "jwt" or a key of the allow-list entry for "trino"; for
\* any other non-empty auth_method the call raises the security error and
\* neither sets connect_args["auth"] nor falls back to another strategy.
C1_NoStrategyOutsideAllowList ==
    Updated =>
        /\ AuthAdded => (HasMethod /\ blob.auth_method.name \in AllowedNames)
        /\ (HasMethod /\ blob.auth_method.name \notin AllowedNames) =>
              (outcome = "ValueError" /\ AuthUntouched)

\* "evil" has been refused under an allow-list that registers it for another
\* engine only
C1_Witness ==
    /\ Updated /\ HasMethod /\ blob.auth_method.name = "evil"
    /\ config = [e \in {"presto"} |-> [n \in {"evil"} |-> "EvilAuth"]]
    /\ outcome = "ValueError"
    /\ ~Has(ArgsOf(params), "auth")

\* C2: when encrypted_extra is present (non-empty) but not well-formed JSON the
\* call raises the parse error and params is exactly as before the call.
C2_ParseErrorLeavesParams ==
    (Updated /\ blob.kind = "malformed") =>
        (outcome = "JSONDecodeError" /\ params = params_before)

\* malformed JSON has been met on a params dict without connect_args
C2_Witness ==
    /\ phase = "direct" /\ blob.kind = "malformed"
    /\ outcome = "JSONDecodeError"
    /\ params = EmptyDict

\* what the base framework supplied, with the engine_params and connect_args
\* dicts in place
Completed(base) ==
    [k \in (DOMAIN base) \cup {"engine_params"} |->
        IF k = "engine_params"
        THEN [j \in (DOMAIN EngineParams(base)) \cup {"connect_args"} |->
                IF j = "connect_args" THEN ArgsOf(EngineParams(base)) ELSE EngineParams(base)[j]]
        ELSE base[k]]

NoCertNoExtra ==
    /\ phase = "built"
    /\ database.server_cert \in {"None", "empty"}
    /\ blob.kind \in {"None", "empty"}

AddedKey(k) == Has(ArgsOf(EngineParams(extra)), k) /\ ~Has(ArgsOf(EngineParams(base_extra)), k)

\* C5 as stated: with no encrypted_extra and no server_cert the builder adds none
\* of http_scheme, verify, auth and the parameter map equals what the base
\* framework supplied.
C5_AsStated ==
    NoCertNoExtra =>
        /\ ~AddedKey("http_scheme") /\ ~AddedKey("verify") /\ ~AddedKey("auth")
        /\ extra = base_extra

\* C5 amended: with no encrypted_extra and no server_cert the builder adds none
\* of http_scheme, verify, auth to connect_args, and the parameter map equals
\* what the base framework supplied except that an empty engine_params and an
\* empty connect_args are created where the base supplied none.
C5_BuilderAddsNothing ==
    NoCertNoExtra =>
        /\ outcome = "returned"
        /\ ~AddedKey("http_scheme") /\ ~AddedKey("verify") /\ ~AddedKey("auth")
        /\ extra = Completed(base_extra)
        /\ params = extra["engine_params"]
        /\ params = params_before

\* the builder has run on a base map without engine_params
C5_Witness ==
    /\ NoCertNoExtra
    /\ base_extra = [k \in {"metadata_params"} |-> EmptyDict]
    /\ extra # base_extra

\* the constructor the method name stands for
StrategyFor(name) ==
    CASE name = "basic" -> "BasicAuthentication"
      [] name = "kerberos" -> "KerberosAuthentication"
      [] name = "jwt" -> "JWTAuthentication"
      [] OTHER -> config["trino"][name]

\* C6: for a built-in or allow-listed auth_method, once the call has returned,
\* connect_args["http_scheme"] is "https" and connect_args["auth"] is the
\* strategy for exactly that name built with exactly the blob's auth_params
\* (none when auth_params is absent); whenever the call set auth, http_scheme
\* is "https".
C6_AuthConfigured ==
    Updated =>
        /\ (HasMethod /\ blob.auth_method.name \in AllowedNames /\ outcome = "returned") =>
              /\ Has(ArgsOf(params), "http_scheme") /\ ArgsOf(params)["http_scheme"] = "https"
              /\ Has(ArgsOf(params), "auth")
              /\ ArgsOf(params)["auth"] =
                    [strategy |-> StrategyFor(blob.auth_method.name),
                     kwargs |-> IF blob.auth_params.kind = "object"
                                THEN blob.auth_params.items ELSE {}]
        /\ AuthAdded =>
              (Has(ArgsOf(params), "http_scheme") /\ ArgsOf(params)["http_scheme"] = "https")

\* basic authentication has been built with x = 1 over a plain-http connect_args
C6_Witness ==
    /\ Updated /\ outcome = "returned"
    /\ blob.auth_method = Method("basic")
    /\ blob.auth_params = Params({<< "x", 1 >>})
    /\ Has(ArgsOf(params_before), "http_scheme") /\ ArgsOf(params_before)["http_scheme"] = "http"
    /\ ArgsOf(params)["auth"] = [strategy |-> "BasicAuthentication", kwargs |-> {<< "x", 1 >>}]

AlreadyHttps(p) ==
    /\ Has(p, "connect_args")
    /\ Has(p["connect_args"], "http_scheme") /\ p["connect_args"]["http_scheme"] = "https"

\* C10 as stated: on the security error params holds connect_args with
\* http_scheme "https" and no auth key added by the call; the only failure
\* that leaves params fully unchanged is the JSON parse failure.
C10_AsStated ==
    Updated =>
        /\ outcome = "ValueError" =>
              /\ AlreadyHttps(params)
              /\ AuthUntouched
        /\ (Failed /\ params = params_before) => outcome = "JSONDecodeError"

\* C10 amended: params is mutated before the strategy is resolved and is not
\* rolled back: on the security error params is what it was with connect_args
\* created if missing and http_scheme set to "https", and without an auth key
\* added by the call.  The JSON parse failure leaves params unchanged; the only
\* other failures that do are the error raised when the JSON is not an object,
\* and a failure met when connect_args already held http_scheme "https".
C10_NoRollback ==
    Updated =>
        /\ outcome = "ValueError" =>
              /\ params = WithHttps(params_before)
              /\ AlreadyHttps(params)
              /\ AuthUntouched
        /\ outcome = "JSONDecodeError" => params = params_before
        /\ (Failed /\ params = params_before) =>
              \/ outcome = "JSONDecodeError"
              \/ blob.kind \in {"scalar", "array"}
              \/ AlreadyHttps(params_before)

\* the security error has been raised on a params dict without connect_args
C10_Witness ==
    /\ phase = "direct" /\ outcome = "ValueError"
    /\ params_before = EmptyDict
    /\ params = [k \in {"connect_args"} |-> [j \in {"http_scheme"} |-> "https"]]

====
